---- MODULE Spec2Model ----
(***************************************************************************)
(* A model of apps/selfhosted/src/project/project.service.ts of            *)
(* swetrix-api: the project cache (getRedisProject, deleteProjectRedis),   *)
(* the storage format translation (formatToClickhouse,                     *)
(* formatFromClickhouse), the validator (validateProject) and the range    *)
(* delete (removeDataFromClickhouse).                                      *)
(*                                                                         *)
(* A string is a sequence of characters, a character is a one-letter TLA+  *)
(* string.  A JavaScript value is a record [k, b, n, s, a]: its kind k and *)
(* the payload of that kind (b a boolean, n a number, s a string, a an     *)
(* array of strings); the other payload fields hold fixed defaults, so two *)
(* values are equal exactly when kind and payload agree.                   *)
(***************************************************************************)
EXTENDS Integers, Sequences, FiniteSets

\* ------------------------------------------------------------------------
\* JavaScript values and objects

JSV(k, b, n, s, a) == [k |-> k, b |-> b, n |-> n, s |-> s, a |-> a]

\* A property the object does not have (reading it gives undefined).
Absent == JSV("absent", FALSE, 0, <<>>, <<>>)

Null == JSV("null", FALSE, 0, <<>>, <<>>)

NaN == JSV("nan", FALSE, 0, <<>>, <<>>)

Bool(b) == JSV("bool", b, 0, <<>>, <<>>)

Num(n) == JSV("num", FALSE, n, <<>>, <<>>)

Str(s) == JSV("str", FALSE, 0, s, <<>>)

Arr(a) == JSV("arr", FALSE, 0, <<>>, a)

\* The properties of a project, in memory and as a row of the project table.
Keys == {"id", "name", "active", "public", "origins", "ipBlacklist"}

KeyOrder == <<"id", "name", "active", "public", "origins", "ipBlacklist">>

\* {} : an object with no own property.
EmptyObject == [k \in Keys |-> Absent]

\* ------------------------------------------------------------------------
\* lodash and the JavaScript conversions the service uses

\* _isNull(v): v === null (undefined is not null).
_isNull(v) == v.k = "null"

\* _isString(v)
_isString(v) == v.k = "str"

\* _isEmpty of an object: it has no own enumerable property.
_isEmptyObject(o) == \A k \in Keys : o[k] = Absent

\* Number(v) for the kinds a project flag takes.
Number(v) ==
  CASE v.k = "bool" -> Num(IF v.b THEN 1 ELSE 0)
    [] v.k = "num" -> v
    [] v.k = "null" -> Num(0)
    [] v.k = "str" /\ v.s = <<>> -> Num(0)
    [] OTHER -> NaN

\* Boolean(v): JavaScript truthiness.
Boolean(v) ==
  CASE v.k = "bool" -> Bool(v.b)
    [] v.k = "num" -> Bool(v.n # 0)
    [] v.k = "str" -> Bool(v.s # <<>>)
    [] v.k = "arr" -> Bool(TRUE)
    [] OTHER -> Bool(FALSE)

RECURSIVE DigitsOf(_)
\* The decimal digits of a natural number.
DigitsOf(n) ==
  LET d == <<"0", "1", "2", "3", "4", "5", "6", "7", "8", "9">>[(n % 10) + 1]
  IN IF n < 10 THEN <<d>> ELSE Append(DigitsOf(n \div 10), d)

\* lodash toString(v): '' for null and undefined, the string itself, the
\* digits of a number.
toString(v) ==
  CASE v.k = "str" -> v.s
    [] v.k = "num" -> DigitsOf(v.n)
    [] v.k = "bool" -> IF v.b THEN <<"t", "r", "u", "e">>
                              ELSE <<"f", "a", "l", "s", "e">>
    [] v.k = "nan" -> <<"N", "a", "N">>
    [] OTHER -> <<>>

RECURSIVE SplitFrom(_, _, _, _)
\* String.prototype.split(','): cut s at every comma; cur is the piece being
\* read and acc the pieces read.  The empty string gives one empty piece.
SplitFrom(s, i, cur, acc) ==
  IF i > Len(s) THEN Append(acc, cur)
  ELSE IF s[i] = "," THEN SplitFrom(s, i + 1, <<>>, Append(acc, cur))
  ELSE SplitFrom(s, i + 1, Append(cur, s[i]), acc)

\* _split(v, ','): toString(v).split(',')
_split(v) == SplitFrom(toString(v), 1, <<>>, <<>>)

RECURSIVE JoinFrom(_, _)
\* Array.prototype.join(','): the entries from the i-th on, separated by commas.
JoinFrom(a, i) ==
  IF i > Len(a) THEN <<>>
  ELSE IF i = Len(a) THEN a[i]
  ELSE a[i] \o <<",">> \o JoinFrom(a, i + 1)

\* _join(v, ','): '' for null and undefined, else the entries joined.
_join(v) == IF v.k = "arr" THEN JoinFrom(v.a, 1) ELSE <<>>

\* _size of a string (0 for null and undefined).
_size(v) == IF v.k = "str" THEN Len(v.s) ELSE 0

\* ------------------------------------------------------------------------
\* The format translation

\* formatToClickhouse(project)
formatToClickhouse(project) ==
  LET flags == [project EXCEPT !.active = Number(project.active),
                               !.public = Number(project.public)]
      withOrigins ==
        IF ~_isNull(flags.origins)
        THEN [flags EXCEPT !.origins =
               IF _isString(flags.origins) THEN flags.origins
               ELSE Str(_join(flags.origins))]
        ELSE flags
  IN IF ~_isNull(withOrigins.ipBlacklist)
     THEN [withOrigins EXCEPT !.ipBlacklist =
            IF _isString(withOrigins.ipBlacklist) THEN withOrigins.ipBlacklist
            ELSE Str(_join(withOrigins.ipBlacklist))]
     ELSE withOrigins

\* formatFromClickhouse(project); a missing row (undefined) spreads to {}.
formatFromClickhouse(project) ==
  [project EXCEPT
     !.active = Boolean(project.active),
     !.public = Boolean(project.public),
     !.origins = IF _isNull(project.origins) THEN Arr(<<>>)
                 ELSE Arr(_split(project.origins)),
     !.ipBlacklist = IF _isNull(project.ipBlacklist) THEN Arr(<<>>)
                     ELSE Arr(_split(project.ipBlacklist))]

\* ------------------------------------------------------------------------
\* JSON.  A text is a sequence of tokens [t, s]: t the token's type and s the
\* characters of a string or number token.

Tok(t) == [t |-> t, s |-> <<>>]

StrTok(s) == [t |-> "str", s |-> s]

KeyChars(k) ==
  CASE k = "id" -> <<"i", "d">>
    [] k = "name" -> <<"n", "a", "m", "e">>
    [] k = "active" -> <<"a", "c", "t", "i", "v", "e">>
    [] k = "public" -> <<"p", "u", "b", "l", "i", "c">>
    [] k = "origins" -> <<"o", "r", "i", "g", "i", "n", "s">>
    [] k = "ipBlacklist" ->
         <<"i", "p", "B", "l", "a", "c", "k", "l", "i", "s", "t">>

RECURSIVE ElemTokens(_, _)
\* The entries of an array from the i-th on, as string tokens with commas.
ElemTokens(a, i) ==
  IF i > Len(a) THEN <<>>
  ELSE IF i = Len(a) THEN <<StrTok(a[i])>>
  ELSE <<StrTok(a[i]), Tok(",")>> \o ElemTokens(a, i + 1)

\* The text of one value: NaN is written null.
ValueTokens(v) ==
  CASE v.k = "bool" -> <<Tok(IF v.b THEN "true" ELSE "false")>>
    [] v.k = "num" -> <<[t |-> "num", s |-> DigitsOf(v.n)]>>
    [] v.k = "str" -> <<StrTok(v.s)>>
    [] v.k = "arr" -> <<Tok("[")>> \o ElemTokens(v.a, 1) \o <<Tok("]")>>
    [] OTHER -> <<Tok("null")>>

RECURSIVE MemberTokens(_, _, _)
\* The members of o from the i-th key on; first says no member was written
\* yet.  A property the object does not have is left out.
MemberTokens(o, i, first) ==
  IF i > Len(KeyOrder) THEN <<>>
  ELSE LET k == KeyOrder[i]
       IN IF o[k] = Absent THEN MemberTokens(o, i + 1, first)
          ELSE (IF first THEN <<>> ELSE <<Tok(",")>>)
               \o <<StrTok(KeyChars(k)), Tok(":")>> \o ValueTokens(o[k])
               \o MemberTokens(o, i + 1, FALSE)

\* JSON.stringify(o) of an object.
JSON_stringify(o) == <<Tok("{")>> \o MemberTokens(o, 1, TRUE) \o <<Tok("}")>>

TokAt(toks, i) == IF i <= Len(toks) THEN toks[i] ELSE Tok("eof")

ParseFail == [ok |-> FALSE, v |-> Absent, next |-> 0]

RECURSIVE ParseElems(_, _, _)
\* The entries of an array after its "[" or a ",": a string, then "," or "]".
ParseElems(toks, i, acc) ==
  IF TokAt(toks, i).t # "str" THEN ParseFail
  ELSE LET got == Append(acc, toks[i].s)
       IN CASE TokAt(toks, i + 1).t = "," -> ParseElems(toks, i + 2, got)
            [] TokAt(toks, i + 1).t = "]" ->
                 [ok |-> TRUE, v |-> Arr(got), next |-> i + 2]
            [] OTHER -> ParseFail

RECURSIVE NumberOf(_, _)
\* The number a sequence of digits writes, read up to its i-th digit.
NumberOf(ds, i) ==
  IF i = 0 THEN 0
  ELSE 10 * NumberOf(ds, i - 1)
       + (CHOOSE d \in 0..9 : DigitsOf(d) = <<ds[i]>>)

\* The value that starts at token i.
ParseValue(toks, i) ==
  LET t == TokAt(toks, i)
  IN CASE t.t = "true" -> [ok |-> TRUE, v |-> Bool(TRUE), next |-> i + 1]
       [] t.t = "false" -> [ok |-> TRUE, v |-> Bool(FALSE), next |-> i + 1]
       [] t.t = "null" -> [ok |-> TRUE, v |-> Null, next |-> i + 1]
       [] t.t = "num" ->
            [ok |-> TRUE, v |-> Num(NumberOf(t.s, Len(t.s))), next |-> i + 1]
       [] t.t = "str" -> [ok |-> TRUE, v |-> Str(t.s), next |-> i + 1]
       [] t.t = "[" ->
            IF TokAt(toks, i + 1).t = "]"
            THEN [ok |-> TRUE, v |-> Arr(<<>>), next |-> i + 2]
            ELSE ParseElems(toks, i + 1, <<>>)
       [] OTHER -> ParseFail

RECURSIVE ParseMembers(_, _, _)
\* The members of an object after its "{" or a ",": a key of a project, ":",
\* a value, then "," or the closing "}" that ends the text.
ParseMembers(toks, i, o) ==
  LET key == TokAt(toks, i)
      val == ParseValue(toks, i + 2)
  IN IF \/ key.t # "str"
        \/ ~\E k \in Keys : KeyChars(k) = key.s
        \/ TokAt(toks, i + 1).t # ":"
        \/ ~val.ok
     THEN [ok |-> FALSE, v |-> EmptyObject]
     ELSE LET k == CHOOSE k \in Keys : KeyChars(k) = key.s
              got == [o EXCEPT ![k] = val.v]
          IN CASE TokAt(toks, val.next).t = "," ->
                    ParseMembers(toks, val.next + 1, got)
               [] TokAt(toks, val.next).t = "}" /\ val.next = Len(toks) ->
                    [ok |-> TRUE, v |-> got]
               [] OTHER -> [ok |-> FALSE, v |-> EmptyObject]

\* JSON.parse(text) of the text of an object: ok is FALSE where JSON.parse
\* throws a SyntaxError.
JSON_parse(toks) ==
  IF TokAt(toks, 1).t # "{" THEN [ok |-> FALSE, v |-> EmptyObject]
  ELSE IF TokAt(toks, 2).t = "}" /\ Len(toks) = 2
       THEN [ok |-> TRUE, v |-> EmptyObject]
       ELSE ParseMembers(toks, 2, EmptyObject)

\* ------------------------------------------------------------------------
\* The validator

Digit == {"0", "1", "2", "3", "4", "5", "6", "7", "8", "9"}

Upper == {"A", "B", "C", "D", "E", "F", "G", "H", "I", "J", "K", "L", "M",
          "N", "O", "P", "Q", "R", "S", "T", "U", "V", "W", "X", "Y", "Z"}

Lower == {"a", "b", "c", "d", "e", "f", "g", "h", "i", "j", "k", "l", "m",
          "n", "o", "p", "q", "r", "s", "t", "u", "v", "w", "x", "y", "z"}

\* LEGAL_PID_CHARACTERS
LEGAL_PID_CHARACTERS == Digit \cup Upper \cup Lower

PID_LENGTH == 12

NAME_LIMIT == 50

ORIGINS_LIMIT == 300

IP_BLACKLIST_LIMIT == 300

\* isValidPID(pid): 12 characters of the identifier alphabet.
isValidPID(pid) ==
  /\ pid.k = "str"
  /\ Len(pid.s) = PID_LENGTH
  /\ \A i \in 1..Len(pid.s) : pid.s[i] \in LEGAL_PID_CHARACTERS

RECURSIVE TrimLeft(_)
TrimLeft(s) == IF s # <<>> /\ Head(s) = " " THEN TrimLeft(Tail(s)) ELSE s

RECURSIVE TrimRight(_)
TrimRight(s) ==
  IF s # <<>> /\ s[Len(s)] = " " THEN TrimRight(SubSeq(s, 1, Len(s) - 1))
  ELSE s

\* _trim(s): s without the whitespace at its two ends.
_trim(s) == TrimRight(TrimLeft(s))

\* ORIGINS_REGEX.test(s): the permissive host pattern, a non-empty string of
\* letters, digits, ".", "-", ":" and "*".
ORIGINS_REGEX_test(s) ==
  /\ s # <<>>
  /\ \A i \in 1..Len(s) : s[i] \in LEGAL_PID_CHARACTERS \cup {".", "-", ":", "*"}

RECURSIVE SplitOn(_, _, _, _, _)
\* s cut at every character sep.
SplitOn(s, sep, i, cur, acc) ==
  IF i > Len(s) THEN Append(acc, cur)
  ELSE IF s[i] = sep THEN SplitOn(s, sep, i + 1, <<>>, Append(acc, cur))
  ELSE SplitOn(s, sep, i + 1, Append(cur, s[i]), acc)

\* s writes a number from 0 to max in decimal, without a leading zero.
IsDecimalUpTo(s, max) ==
  /\ Len(s) \in 1..3
  /\ \A i \in 1..Len(s) : s[i] \in Digit
  /\ Len(s) > 1 => s[1] # "0"
  /\ NumberOf(s, Len(s)) <= max

IsIPv4(s) ==
  LET parts == SplitOn(s, ".", 1, <<>>, <<>>)
  IN Len(parts) = 4 /\ \A i \in 1..4 : IsDecimalUpTo(parts[i], 255)

\* net.isIP(s) # 0, for the dotted-quad addresses (the entries the model
\* draws hold no IPv6 address).
net_isIP(s) == IsIPv4(s)

\* IP_REGEX.test(s): the address-range pattern, an IPv4 address, "/" and a
\* prefix length of at most 32.
IP_REGEX_test(s) ==
  LET parts == SplitOn(s, "/", 1, <<>>, <<>>)
  IN Len(parts) = 2 /\ IsIPv4(parts[1]) /\ IsDecimalUpTo(parts[2], 32)

\* What a call of validateProject did: the exception it threw ("none" when it
\* returned), the check that threw, the entry the message names, and the
\* checks it evaluated, in order (one "origin" or "ip" per entry tested).
Outcome(error, check, value, evaluated) ==
  [error |-> error, check |-> check, value |-> value, evaluated |-> evaluated]

Entries(v) == IF v.k = "arr" THEN v.a ELSE <<>>

RECURSIVE MapIpBlacklist(_, _, _)
\* _map(projectDTO.ipBlacklist, ip => ...) from the i-th entry on.
MapIpBlacklist(ips, i, evaluated) ==
  IF i > Len(ips) THEN Outcome("none", "none", <<>>, evaluated)
  ELSE IF ~net_isIP(_trim(ips[i])) /\ ~IP_REGEX_test(_trim(ips[i]))
       THEN Outcome("ConflictException", "ip", ips[i], Append(evaluated, "ip"))
       ELSE MapIpBlacklist(ips, i + 1, Append(evaluated, "ip"))

RECURSIVE MapOrigins(_, _, _, _)
\* _map(projectDTO.origins, host => ...) from the i-th entry on, then the
\* loop over ipBlacklist.
MapOrigins(origins, ips, i, evaluated) ==
  IF i > Len(origins) THEN MapIpBlacklist(ips, 1, evaluated)
  ELSE IF ~ORIGINS_REGEX_test(_trim(origins[i]))
       THEN Outcome("ConflictException", "origin", origins[i],
                    Append(evaluated, "origin"))
       ELSE MapOrigins(origins, ips, i + 1, Append(evaluated, "origin"))

\* A variant of validateProject that tests the length of the origins before
\* the identifier.
validateProject_LengthFirst(projectDTO, creatingProject) ==
  IF _size(projectDTO.name) > NAME_LIMIT
  THEN Outcome("UnprocessableEntityException", "name", <<>>, <<"name">>)
  ELSE IF creatingProject
  THEN Outcome("none", "none", <<>>, <<"name">>)
  ELSE IF _size(Str(_join(projectDTO.origins))) > ORIGINS_LIMIT
  THEN Outcome("UnprocessableEntityException", "originsLength", <<>>,
               <<"name", "originsLength">>)
  ELSE IF ~isValidPID(projectDTO.id)
  THEN Outcome("UnprocessableEntityException", "pid", <<>>,
               <<"name", "originsLength", "pid">>)
  ELSE IF _size(Str(_join(projectDTO.ipBlacklist))) > IP_BLACKLIST_LIMIT
  THEN Outcome("UnprocessableEntityException", "ipBlacklistLength", <<>>,
               <<"name", "pid", "originsLength", "ipBlacklistLength">>)
  ELSE MapOrigins(Entries(projectDTO.origins), Entries(projectDTO.ipBlacklist),
                  1, <<"name", "pid", "originsLength", "ipBlacklistLength">>)

\* A variant of validateProject that does not return early when creating.
validateProject_NoSkip(projectDTO, creatingProject) ==
  IF _size(projectDTO.name) > NAME_LIMIT
  THEN Outcome("UnprocessableEntityException", "name", <<>>, <<"name">>)
  ELSE IF ~isValidPID(projectDTO.id)
  THEN Outcome("UnprocessableEntityException", "pid", <<>>, <<"name", "pid">>)
  ELSE IF _size(Str(_join(projectDTO.origins))) > ORIGINS_LIMIT
  THEN Outcome("UnprocessableEntityException", "originsLength", <<>>,
               <<"name", "pid", "originsLength">>)
  ELSE IF _size(Str(_join(projectDTO.ipBlacklist))) > IP_BLACKLIST_LIMIT
  THEN Outcome("UnprocessableEntityException", "ipBlacklistLength", <<>>,
               <<"name", "pid", "originsLength", "ipBlacklistLength">>)
  ELSE MapOrigins(Entries(projectDTO.origins), Entries(projectDTO.ipBlacklist),
                  1, <<"name", "pid", "originsLength", "ipBlacklistLength">>)

\* A variant of validateProject whose limits are reached one character
\* earlier (>= where the code has >).
validateProject_AtLimit(projectDTO, creatingProject) ==
  IF _size(projectDTO.name) >= NAME_LIMIT
  THEN Outcome("UnprocessableEntityException", "name", <<>>, <<"name">>)
  ELSE IF creatingProject
  THEN Outcome("none", "none", <<>>, <<"name">>)
  ELSE IF ~isValidPID(projectDTO.id)
  THEN Outcome("UnprocessableEntityException", "pid", <<>>, <<"name", "pid">>)
  ELSE IF _size(Str(_join(projectDTO.origins))) >= ORIGINS_LIMIT
  THEN Outcome("UnprocessableEntityException", "originsLength", <<>>,
               <<"name", "pid", "originsLength">>)
  ELSE IF _size(Str(_join(projectDTO.ipBlacklist))) >= IP_BLACKLIST_LIMIT
  THEN Outcome("UnprocessableEntityException", "ipBlacklistLength", <<>>,
               <<"name", "pid", "originsLength", "ipBlacklistLength">>)
  ELSE MapOrigins(Entries(projectDTO.origins), Entries(projectDTO.ipBlacklist),
                  1, <<"name", "pid", "originsLength", "ipBlacklistLength">>)

\* validateProject(projectDTO, creatingProject)
validateProject(projectDTO, creatingProject) ==
  IF _size(projectDTO.name) > NAME_LIMIT
  THEN Outcome("UnprocessableEntityException", "name", <<>>, <<"name">>)
  ELSE IF creatingProject
  THEN Outcome("none", "none", <<>>, <<"name">>)
  ELSE IF ~isValidPID(projectDTO.id)
  THEN Outcome("UnprocessableEntityException", "pid", <<>>, <<"name", "pid">>)
  ELSE IF _size(Str(_join(projectDTO.origins))) > ORIGINS_LIMIT
  THEN Outcome("UnprocessableEntityException", "originsLength", <<>>,
               <<"name", "pid", "originsLength">>)
  ELSE IF _size(Str(_join(projectDTO.ipBlacklist))) > IP_BLACKLIST_LIMIT
  THEN Outcome("UnprocessableEntityException", "ipBlacklistLength", <<>>,
               <<"name", "pid", "originsLength", "ipBlacklistLength">>)
  ELSE MapOrigins(Entries(projectDTO.origins), Entries(projectDTO.ipBlacklist),
                  1, <<"name", "pid", "originsLength", "ipBlacklistLength">>)

\* ------------------------------------------------------------------------
\* The guards: allowedToView, isPIDUnique, checkIfIDUnique.  A guard gives
\* the exception it throws, "none" when it returns.

\* A variant of allowedToView that lets only a public project be viewed.
allowedToView_PublicOnly(project, uid) ==
  IF Boolean(project.public).b THEN "none" ELSE "ForbiddenException"

\* allowedToView(project, uid): returns when project.public || uid is truthy.
allowedToView(project, uid) ==
  IF Boolean(project.public).b \/ Boolean(uid).b THEN "none"
  ELSE "ForbiddenException"

\* a === b for the values an id takes: same kind and same payload (NaN
\* equals nothing, an array only itself).
StrictEquals(a, b) == a = b /\ a.k \notin {"nan", "arr"}

RECURSIVE _find(_, _, _)
\* _find(projects, ({ id }) => id === pid) from the i-th element on: the
\* first element whose id is pid, or undefined.
_find(projects, pid, i) ==
  IF i > Len(projects) THEN [found |-> FALSE, element |-> [id |-> Absent]]
  ELSE IF StrictEquals(projects[i].id, pid)
       THEN [found |-> TRUE, element |-> projects[i]]
       ELSE _find(projects, pid, i + 1)

\* A variant of isPIDUnique that looks at the first element only.
isPIDUnique_FirstOnly(projects, pid) ==
  Len(projects) = 0 \/ ~StrictEquals(projects[1].id, pid)

\* isPIDUnique(projects, pid): !_find(...); an element found is an object,
\* which is truthy, and undefined is falsy.
isPIDUnique(projects, pid) == ~_find(projects, pid, 1).found

\* checkIfIDUnique(projects, pid)
checkIfIDUnique(projects, pid) ==
  IF ~isPIDUnique(projects, pid) THEN "BadRequestException" ELSE "none"

\* ------------------------------------------------------------------------
\* State

VARIABLES
  fmtPc,        \* the translation run: "start", "stored", "loaded"
  fmtProject,   \* the project in memory that the run starts from
  fmtRow,       \* formatToClickhouse(fmtProject), once stored
  fmtBack,      \* formatFromClickhouse(fmtRow), once loaded
  valPc,        \* the validation run: "start", "done"
  valDTO,       \* the projectDTO handed to validateProject
  valCreating,  \* its creatingProject argument
  valOutcome,   \* what the call did
  store,        \* the project table: the row of each identifier, {} if none
  storeAge,     \* per identifier, the seconds since each update of its row
  cache,        \* Redis: the entry under each project key
  call,         \* the calls of getRedisProject
  tables,       \* the rows of the analytics, customEV and performance tables
  tables0,      \* the rows they held at the start
  storeDown,    \* the transient condition under which a command can fail
  del,          \* the calls of removeDataFromClickhouse
  purge,        \* what the last call of deleteProjectRedis was seen to do
  accProject,   \* the project handed to allowedToView
  accUid,       \* its uid argument
  accView,      \* what allowedToView did: "idle", "none" or the exception
  uniProjects,  \* the projects handed to isPIDUnique and checkIfIDUnique
  uniPid,       \* their pid argument
  uniResult,    \* what isPIDUnique returned: "idle", "true" or "false"
  uniCheck      \* what checkIfIDUnique did: "idle", "none" or the exception

fmtVars == <<fmtPc, fmtProject, fmtRow, fmtBack>>

valVars == <<valPc, valDTO, valCreating, valOutcome>>

cacheVars == <<store, storeAge, cache, call>>

delVars == <<tables, tables0, storeDown, del>>

purgeVars == <<purge>>

grdVars == <<accProject, accUid, accView, uniProjects, uniPid, uniResult,
             uniCheck>>

vars == <<fmtVars, valVars, cacheVars, delVars, purgeVars, grdVars>>

\* ------------------------------------------------------------------------
\* Inputs

\* Two project identifiers.
PID1 == <<"A", "B", "C", "D", "E", "F", "G", "H", "I", "J", "K", "L">>

PID2 == <<"z", "y", "x", "w", "v", "u", "9", "8", "7", "6", "5", "4">>

\* The most entries a list of a translated project holds.
MaxEntries == 2

RECURSIVE ListsUpTo(_, _)
\* The lists of at most n entries drawn from the set E.
ListsUpTo(E, n) ==
  IF n = 0 THEN {<<>>}
  ELSE LET shorter == ListsUpTo(E, n - 1)
       IN shorter \cup {Append(l, e) : l \in {x \in shorter : Len(x) = n - 1},
                                       e \in E}

OriginEntries == {<<"a", ".", "i", "o">>, <<"*", ".", "b">>}

IpEntries == {<<"1", ".", "2", ".", "3", ".", "4">>,
              <<"1", "0", ".", "0", ".", "0", ".", "0", "/", "8">>}

\* The valid projects a translation run starts from.
ValidProjects ==
  {[id |-> Str(PID1), name |-> Str(<<"s", "i", "t", "e">>),
    active |-> Bool(a), public |-> Bool(p),
    origins |-> Arr(o), ipBlacklist |-> Arr(i)] :
     a \in BOOLEAN, p \in BOOLEAN,
     o \in ListsUpTo(OriginEntries, MaxEntries),
     i \in ListsUpTo(IpEntries, MaxEntries)}

\* A string of n characters c.
Repeat(c, n) == [i \in 1..n |-> c]

\* n copies of the entry e.
Copies(e, n) == [i \in 1..n |-> e]

NameInputs == {Str(Repeat("n", n)) : n \in {0, NAME_LIMIT, NAME_LIMIT + 1}}

IdInputs == {Str(PID1), Str(<<"b", "a", "d">>),
             Str(<<"A", "B", "C", "D", "E", "F", "G", "H", "I", "J", "K", "!">>)}

GoodHost == <<"a", ".", "i", "o">>

BadHost == <<"a", " ", "b">>

WorseHost == <<"?">>

\* Lists of origins: none, valid ones (one with whitespace around it), ones
\* with invalid entries, and valid and invalid ones at the length limit.
OriginsInputs ==
  {Arr(<<>>),
   Arr(<<GoodHost, <<" ">> \o GoodHost \o <<" ">> >>),
   Arr(<<BadHost>>),
   Arr(<<GoodHost, WorseHost, BadHost>>),
   Arr(<<Repeat("a", 150), Repeat("b", ORIGINS_LIMIT - 151)>>),
   Arr(<<Repeat("a", 150), Repeat("b", ORIGINS_LIMIT - 150)>>),
   Arr(<<Repeat("a", ORIGINS_LIMIT), WorseHost>>)}

GoodIp == <<"1", "0", ".", "0", ".", "0", ".", "1">>

GoodRange == <<"1", "0", ".", "0", ".", "0", ".", "0", "/", "8">>

BadIp == <<"1", "0", ".", "0", ".", "0", ".", "9", "9", "9">>

WorseIp == <<"x">>

\* Lists of addresses, as for the origins; with the commas, 31 addresses of
\* 8 characters and 2 ranges of 10 join to 300 characters, 25 and 7 to 301.
IpBlacklistInputs ==
  {Arr(<<>>),
   Arr(<<GoodIp, <<" ">> \o GoodRange \o <<" ">> >>),
   Arr(<<BadIp>>),
   Arr(<<GoodRange, WorseIp, BadIp>>),
   Arr(Copies(GoodIp, 31) \o Copies(GoodRange, 2)),
   Arr(Copies(GoodIp, 25) \o Copies(GoodRange, 7)),
   Arr(Copies(GoodIp, 34) \o <<WorseIp>>)}

NoOutcome == Outcome("none", "none", <<>>, <<>>)

\* ------------------------------------------------------------------------
\* The translation run: a valid project is stored and loaded again.

FormatIdle ==
  /\ fmtPc = "idle"
  /\ fmtProject = EmptyObject
  /\ fmtRow = EmptyObject
  /\ fmtBack = EmptyObject

FormatInit ==
  /\ fmtPc = "start"
  /\ fmtProject \in ValidProjects
  /\ fmtRow = EmptyObject
  /\ fmtBack = EmptyObject

ToStorage ==
  /\ fmtPc = "start"
  /\ fmtRow' = formatToClickhouse(fmtProject)
  /\ fmtPc' = "stored"
  /\ UNCHANGED <<fmtProject, fmtBack>>

FromStorage ==
  /\ fmtPc = "stored"
  /\ fmtBack' = formatFromClickhouse(fmtRow)
  /\ fmtPc' = "loaded"
  /\ UNCHANGED <<fmtProject, fmtRow>>

\* ------------------------------------------------------------------------
\* The validation run: one call of validateProject.

ValidateIdle ==
  /\ valPc = "idle"
  /\ valDTO = [id |-> Null, name |-> Null, origins |-> Null,
               ipBlacklist |-> Null]
  /\ valCreating = FALSE
  /\ valOutcome = NoOutcome

ValidateInit ==
  /\ valPc = "start"
  /\ valDTO \in [id : IdInputs, name : NameInputs, origins : OriginsInputs,
                 ipBlacklist : IpBlacklistInputs]
  /\ valCreating \in BOOLEAN
  /\ valOutcome = NoOutcome

Validate ==
  /\ valPc = "start"
  /\ valOutcome' = validateProject(valDTO, valCreating)
  /\ valPc' = "done"
  /\ UNCHANGED <<valDTO, valCreating>>

\* ------------------------------------------------------------------------
\* The guard run: allowedToView, isPIDUnique and checkIfIDUnique are each
\* called once on the arguments the run starts with.

\* The most elements the list of projects holds.
MaxProjects == 2

\* The projects handed to allowedToView: the flags public and active vary.
ViewProjects ==
  {[id |-> Str(PID1), name |-> Str(<<"s", "i", "t", "e">>),
    active |-> Bool(a), public |-> Bool(p),
    origins |-> Arr(<<>>), ipBlacklist |-> Arr(<<>>)] : a, p \in BOOLEAN}

\* The viewer: nobody, or the identifier of an authenticated user.
UidInputs == {Null, Str(<<"u", "1">>)}

\* The elements of the list of projects: objects with an id, and one
\* without.
ProjectElements == {[id |-> Str(PID1)], [id |-> Str(PID2)], [id |-> Absent]}

GuardIdle ==
  /\ accProject = EmptyObject
  /\ accUid = Null
  /\ accView = "idle"
  /\ uniProjects = <<>>
  /\ uniPid = Null
  /\ uniResult = "idle"
  /\ uniCheck = "idle"

GuardInit ==
  /\ accProject \in ViewProjects
  /\ accUid \in UidInputs
  /\ accView = "idle"
  /\ uniProjects \in ListsUpTo(ProjectElements, MaxProjects)
  /\ uniPid \in {Str(PID1), Str(PID2)}
  /\ uniResult = "idle"
  /\ uniCheck = "idle"

AllowedToView ==
  /\ accView = "idle"
  /\ accView' = allowedToView(accProject, accUid)
  /\ UNCHANGED <<accProject, accUid, uniProjects, uniPid, uniResult, uniCheck>>

IsPIDUnique ==
  /\ uniResult = "idle"
  /\ uniResult' = IF isPIDUnique(uniProjects, uniPid) THEN "true" ELSE "false"
  /\ UNCHANGED <<accProject, accUid, accView, uniProjects, uniPid, uniCheck>>

CheckIfIDUnique ==
  /\ uniCheck = "idle"
  /\ uniCheck' = checkIfIDUnique(uniProjects, uniPid)
  /\ UNCHANGED <<accProject, accUid, accView, uniProjects, uniPid, uniResult>>

\* ------------------------------------------------------------------------
\* The project cache: getRedisProject and deleteProjectRedis run against
\* Redis and the project table, beside updates of the table by other
\* requests and the passing of time.

Pids == {PID1, PID2}

\* The calls of getRedisProject that a run makes.
MaxCalls == 2

\* The updates of a project's row that a run makes.
MaxUpdates == 1

CallIds == 1..MaxCalls

\* redisProjectCacheTimeout, in ticks of the clock.
redisProjectCacheTimeout == 2

\* getRedisProjectKey(pid): the namespace prefix, then the identifier.
getRedisProjectKey(pid) == <<"p", "i", "d", "_">> \o pid

CacheKeys == {getRedisProjectKey(pid) : pid \in Pids}

\* What a row holds beside its identifier and name.
RowShapes ==
  {[active |-> Num(1), public |-> Num(0), origins |-> Null,
    ipBlacklist |-> Null],
   [active |-> Num(0), public |-> Num(1),
    origins |-> Str(<<"a", ".", "i", "o", ",", "*", ".", "b">>),
    ipBlacklist |-> Str(<<>>)]}

\* The row of pid after ver updates: the name tells the updates apart.
RowOf(pid, ver, shape) ==
  [id |-> Str(pid), name |-> Str(Repeat("n", ver + 1)),
   active |-> shape.active, public |-> shape.public,
   origins |-> shape.origins, ipBlacklist |-> shape.ipBlacklist]

\* The number of updates behind a row or a project read from it.
VersionOf(project) ==
  IF project.name.k = "str" THEN Len(project.name.s) - 1 ELSE 0

\* No entry under a key.
NoEntry == [has |-> FALSE, val |-> <<>>, ttl |-> 0, by |-> 0]

\* An entry: its value, the seconds it has left, and the call that wrote it
\* (0 for a value another client of Redis left there).
Entry(val, ttl, by) == [has |-> TRUE, val |-> val, ttl |-> ttl, by |-> by]

\* A value no JSON.parse accepts: the text of an object cut short.
CorruptText == <<Tok("{"), StrTok(KeyChars("id")), Tok(":")>>

\* redis.get(key): the value, or null.
NullReply == [isNull |-> TRUE, text |-> <<>>]

redis_get(key) ==
  IF cache[key].has THEN [isNull |-> FALSE, text |-> cache[key].val]
  ELSE NullReply

\* A variant of _isEmpty that also takes a value no JSON.parse accepts for a
\* miss, so that the call falls through to the table.
_isEmpty_OrCorrupt(reply) ==
  reply.isNull \/ Len(reply.text) = 0 \/ ~JSON_parse(reply.text).ok

\* _isEmpty of the reply of redis.get: null or the empty string.
_isEmpty(reply) == reply.isNull \/ Len(reply.text) = 0

\* getProjectsClickhouse(pid): the row of pid, or nothing.
getProjectsClickhouse(pid) == store[pid]

\* A variant of CacheValue that writes the row form of the project.
CacheValue_StorageShaped(project) ==
  JSON_stringify(formatToClickhouse(project))

\* A variant of CacheValue that writes the beginning of the text only.
CacheValue_Partial(project) == SubSeq(JSON_stringify(project), 1, 3)

\* The value getRedisProject writes for the project it is to return.
CacheValue(project) == JSON_stringify(project)

\* A call: where it is, its pid, the project it holds, the exception it
\* threw, and what it did: the row it read, whether it queried the table,
\* whether it wrote the cache, the writer of the entry it read (0: none),
\* the latest update that was older than the timeout when it started, and
\* the operation it awaited that failed ("none" if none did).
IdleCall ==
  [pc |-> "idle", pid |-> PID1, project |-> EmptyObject, err |-> "none",
   row |-> EmptyObject, queried |-> FALSE, wrote |-> FALSE, hit |-> 0,
   settled |-> 0, fault |-> "none"]

Finish(c, project, err) ==
  [call[c] EXCEPT !.pc = "done", !.project = project, !.err = err]

\* The highest update of pid made more than the timeout ago.
Settled(pid) ==
  LET old == {v \in 1..Len(storeAge[pid]) :
                storeAge[pid][v] > redisProjectCacheTimeout}
  IN IF old = {} THEN 0 ELSE CHOOSE v \in old : \A w \in old : w <= v

\* getRedisProject(pid) is called: it asks Redis for the key.
GetStart(c, pid) ==
  /\ call[c].pc = "idle"
  /\ \A d \in CallIds : d < c => call[d].pc # "idle"
  /\ call' = [call EXCEPT ![c] = [IdleCall EXCEPT !.pc = "get", !.pid = pid,
                                     !.settled = Settled(pid)]]
  /\ UNCHANGED <<store, storeAge, cache>>

\* A variant of GetReply in which a hit renews the expiry of the entry.
GetReply_Sliding(c) ==
  /\ call[c].pc = "get"
  /\ \E ok \in BOOLEAN :
       LET key == getRedisProjectKey(call[c].pid)
           reply == redis_get(key)
           parsed == JSON_parse(reply.text)
       IN /\ call' = [call EXCEPT ![c] =
               IF ~ok THEN [Finish(c, EmptyObject, "RedisError") EXCEPT
                              !.fault = "redis.get"]
               ELSE IF _isEmpty(reply) THEN [call[c] EXCEPT !.pc = "query"]
               ELSE IF parsed.ok
                    THEN [Finish(c, parsed.v, "none") EXCEPT
                            !.hit = cache[key].by]
                    ELSE Finish(c, EmptyObject,
                                "InternalServerErrorException")]
          /\ cache' = IF ok /\ ~_isEmpty(reply) /\ parsed.ok
                      THEN [cache EXCEPT ![key].ttl = redisProjectCacheTimeout]
                      ELSE cache
  /\ UNCHANGED <<store, storeAge>>

\* redis.get answers (or fails): on a miss the call queries the table; else
\* it parses the value and returns the project or throws.
GetReply(c) ==
  /\ call[c].pc = "get"
  /\ \E ok \in BOOLEAN :
       LET key == getRedisProjectKey(call[c].pid)
           reply == redis_get(key)
           parsed == JSON_parse(reply.text)
       IN call' = [call EXCEPT ![c] =
            IF ~ok THEN [Finish(c, EmptyObject, "RedisError") EXCEPT
                           !.fault = "redis.get"]
            ELSE IF _isEmpty(reply) THEN [call[c] EXCEPT !.pc = "query"]
            ELSE IF parsed.ok
                 THEN [Finish(c, parsed.v, "none") EXCEPT
                         !.hit = cache[key].by]
                 ELSE Finish(c, EmptyObject, "InternalServerErrorException")]
  /\ UNCHANGED <<store, storeAge, cache>>

\* getProjectsClickhouse answers (or fails): the call translates the row,
\* throws if the project is empty, and else sends the write to Redis.
QueryReply(c) ==
  /\ call[c].pc = "query"
  /\ \E ok \in BOOLEAN :
       LET row == getProjectsClickhouse(call[c].pid)
           project == formatFromClickhouse(row)
       IN call' = [call EXCEPT ![c] =
            IF ~ok THEN [Finish(c, EmptyObject, "StoreError") EXCEPT
                           !.queried = TRUE,
                           !.fault = "getProjectsClickhouse"]
            ELSE IF _isEmptyObject(project)
                 THEN [Finish(c, EmptyObject, "BadRequestException") EXCEPT
                         !.queried = TRUE, !.row = row]
                 ELSE [call[c] EXCEPT !.pc = "set", !.project = project,
                                      !.queried = TRUE, !.row = row]]
  /\ UNCHANGED <<store, storeAge, cache>>

\* redis.set(key, value, 'EX', redisProjectCacheTimeout) is carried out (or
\* fails): one command sets the value and the expiry; the call returns.
SetReply(c) ==
  /\ call[c].pc = "set"
  /\ \E ok \in BOOLEAN :
       IF ok
       THEN /\ cache' = [cache EXCEPT ![getRedisProjectKey(call[c].pid)] =
                 Entry(CacheValue(call[c].project),
                       redisProjectCacheTimeout, c)]
            /\ call' = [call EXCEPT ![c] =
                 [Finish(c, call[c].project, "none") EXCEPT !.wrote = TRUE]]
       ELSE /\ call' = [call EXCEPT ![c] =
                 [Finish(c, EmptyObject, "RedisError") EXCEPT
                    !.fault = "redis.set"]]
            /\ UNCHANGED cache
  /\ UNCHANGED <<store, storeAge>>

\* redis.del(key) is carried out (ok) or fails: the entry is removed or
\* left.
redis_del(key, ok) ==
  /\ cache' = IF ok THEN [cache EXCEPT ![key] = NoEntry] ELSE cache
  /\ UNCHANGED <<store, storeAge, call>>

\* deleteProjectRedis(id): redis.del(key) removes the entry; when it fails
\* the error is logged and the call returns all the same.
deleteProjectRedis(id) ==
  \E ok \in BOOLEAN : redis_del(getRedisProjectKey(id), ok)

\* No call of deleteProjectRedis was seen yet.
NoPurge == [id |-> <<>>, outcome |-> "idle", logged |-> FALSE, seq |-> 0]

\* A variant of Purged in which the failure of redis.del is logged and
\* thrown again.
Purged_Rethrow(id, ok, seq) ==
  [id |-> id, outcome |-> IF ok THEN "returned" ELSE "raised",
   logged |-> ~ok, seq |-> 1 - seq]

\* What a call of deleteProjectRedis(id) is seen to do when redis.del
\* succeeded (ok) or failed: the try block returns, the catch block writes
\* the error to the console and returns.  seq tells a call from the one
\* before it.
Purged(id, ok, seq) ==
  [id |-> id, outcome |-> "returned", logged |-> ~ok, seq |-> 1 - seq]

\* deleteProjectRedis(id), with what the caller and the console see of it.
ObservedDelete(id) ==
  \E ok \in BOOLEAN :
    /\ redis_del(getRedisProjectKey(id), ok)
    /\ purge' = Purged(id, ok, purge.seq)

\* The shape a row is given by an update: another one than it has.
UpdatedShape(row) ==
  CHOOSE shape \in RowShapes : shape.active # row.active

\* Another request updates the row of a project in the table.
StoreUpdate(pid) ==
  /\ ~_isEmptyObject(store[pid])
  /\ VersionOf(store[pid]) < MaxUpdates
  /\ store' = [store EXCEPT ![pid] =
       RowOf(pid, VersionOf(store[pid]) + 1, UpdatedShape(store[pid]))]
  /\ storeAge' = [storeAge EXCEPT ![pid] = Append(@, 0)]
  /\ UNCHANGED <<cache, call>>

\* A second passes: Redis drops the entries whose time is up.
Tick ==
  /\ cache' = [k \in CacheKeys |->
                 IF cache[k].has /\ cache[k].ttl > 1
                 THEN [cache[k] EXCEPT !.ttl = @ - 1]
                 ELSE NoEntry]
  /\ storeAge' = [p \in Pids |->
                    [v \in 1..Len(storeAge[p]) |->
                       IF storeAge[p][v] > redisProjectCacheTimeout
                       THEN storeAge[p][v] ELSE storeAge[p][v] + 1]]
  /\ UNCHANGED <<store, call>>

PurgeIdle == purge = NoPurge

CacheIdle ==
  /\ store = [p \in Pids |-> EmptyObject]
  /\ storeAge = [p \in Pids |-> <<>>]
  /\ cache = [k \in CacheKeys |-> NoEntry]
  /\ call = [c \in CallIds |-> IdleCall]

\* The table holds the row of PID1 and Redis an entry for it, no call of
\* getRedisProject being made.
CacheLoaded ==
  LET row == RowOf(PID1, 0, CHOOSE shape \in RowShapes : shape.origins # Null)
  IN /\ store = [p \in Pids |-> IF p = PID1 THEN row ELSE EmptyObject]
     /\ storeAge = [p \in Pids |-> <<>>]
     /\ cache = [k \in CacheKeys |->
                   IF k = getRedisProjectKey(PID1)
                   THEN Entry(JSON_stringify(formatFromClickhouse(row)),
                              redisProjectCacheTimeout, 0)
                   ELSE NoEntry]
     /\ call = [c \in CallIds |-> IdleCall]

\* PID1 is a project of the table, PID2 is not; Redis holds nothing, or under
\* the key of PID1 the empty string or a value that is no JSON, left there
\* by another client.
CacheInit ==
  /\ \E shape \in RowShapes :
       store = [p \in Pids |->
                  IF p = PID1 THEN RowOf(p, 0, shape) ELSE EmptyObject]
  /\ storeAge = [p \in Pids |-> <<>>]
  /\ \E e \in {NoEntry, Entry(<<>>, redisProjectCacheTimeout, 0),
                Entry(CorruptText, redisProjectCacheTimeout, 0)} :
       cache = [k \in CacheKeys |->
                  IF k = getRedisProjectKey(PID1) THEN e ELSE NoEntry]
  /\ call = [c \in CallIds |-> IdleCall]

\* ------------------------------------------------------------------------
\* The range delete: removeDataFromClickhouse sends one ALTER TABLE ... DELETE
\* per table and awaits Promise.all of the three.  A timestamp is a number
\* of seconds.

\* The calls of removeDataFromClickhouse that a run makes, one after another.
MaxRangeDeletes == 2

DelIds == 1..MaxRangeDeletes

Tables == {"analytics", "customEV", "performance"}

\* The tables of queryAnalytics, queryCustomEvents and queryPerformance, in
\* the order Promise.all is handed their promises.
QueryTables == <<"analytics", "customEV", "performance">>

Row(pid, created) == [pid |-> pid, created |-> created]

\* A variant of Matches whose interval leaves out its upper end.
Matches_HalfOpen(row, pid, from, to) ==
  row.pid = pid /\ from <= row.created /\ row.created < to

\* A variant of Matches that leaves out the condition on pid.
Matches_AnyPid(row, pid, from, to) ==
  from <= row.created /\ row.created <= to

\* WHERE pid = {pid} AND created BETWEEN {from} AND {to}
Matches(row, pid, from, to) ==
  row.pid = pid /\ from <= row.created /\ row.created <= to

\* A variant of PromiseAll that resolves with the first promise that does.
PromiseAll_Any(outcome, status) ==
  IF outcome # "pending" THEN outcome
  ELSE IF \E i \in DOMAIN status : status[i] = "ok" THEN "resolved"
  ELSE IF \A i \in DOMAIN status : status[i] = "failed" THEN "rejected"
  ELSE "pending"

\* A variant of PromiseAll that settles when all promises have settled.
PromiseAll_Settled(outcome, status) ==
  IF outcome # "pending" THEN outcome
  ELSE IF \E i \in DOMAIN status : status[i] = "sent" THEN "pending"
  ELSE IF \E i \in DOMAIN status : status[i] = "failed" THEN "rejected"
  ELSE "resolved"

\* Promise.all: once settled it stays so; it rejects with the first promise
\* that rejects and resolves when all have resolved.
PromiseAll(outcome, status) ==
  IF outcome # "pending" THEN outcome
  ELSE IF \E i \in DOMAIN status : status[i] = "failed" THEN "rejected"
  ELSE IF \A i \in DOMAIN status : status[i] = "ok" THEN "resolved"
  ELSE "pending"

\* A call: its arguments, the state of each command ("sent", "ok", "failed"),
\* what the caller has observed ("idle" before the call, "pending" while it
\* awaits, "resolved", "rejected"), and whether the store was sound when the
\* call was made.
IdleDelete ==
  [pid |-> PID1, from |-> 0, to |-> 0, status |-> <<>>, outcome |-> "idle",
   sound |-> FALSE]

AllRows == {Row(PID1, t) : t \in 1..3} \cup {Row(PID2, 2)}

\* The intervals a call is made with; the last holds no timestamp.
Ranges == {<<2, 2>>, <<2, 3>>, <<3, 2>>}

\* removeDataFromClickhouse(pid, from, to) is called, once the call before
\* it has settled: the three commands are sent.
DeleteStart(c, pid, from, to) ==
  /\ del[c].outcome = "idle"
  /\ \A d \in DelIds : d < c => del[d].outcome \in {"resolved", "rejected"}
  /\ del' = [del EXCEPT ![c] =
       [pid |-> pid, from |-> from, to |-> to,
        status |-> [i \in DOMAIN QueryTables |-> "sent"],
        outcome |-> "pending", sound |-> ~storeDown]]
  /\ UNCHANGED <<tables, tables0, storeDown>>

\* The i-th command of call c is carried out: its rows are deleted.
CommandDone(c, i) ==
  /\ del[c].outcome # "idle"
  /\ del[c].status[i] = "sent"
  /\ tables' = [tables EXCEPT ![QueryTables[i]] =
       {r \in @ : ~Matches(r, del[c].pid, del[c].from, del[c].to)}]
  /\ LET status == [del[c].status EXCEPT ![i] = "ok"]
     IN del' = [del EXCEPT ![c].status = status,
                           ![c].outcome = PromiseAll(del[c].outcome, status)]
  /\ UNCHANGED <<tables0, storeDown>>

\* The i-th command of call c fails: it deletes nothing.
CommandFail(c, i) ==
  /\ storeDown
  /\ del[c].outcome # "idle"
  /\ del[c].status[i] = "sent"
  /\ LET status == [del[c].status EXCEPT ![i] = "failed"]
     IN del' = [del EXCEPT ![c].status = status,
                           ![c].outcome = PromiseAll(del[c].outcome, status)]
  /\ UNCHANGED <<tables, tables0, storeDown>>

\* The transient condition clears.
Recover ==
  /\ storeDown
  /\ storeDown' = FALSE
  /\ UNCHANGED <<tables, tables0, del>>

DeleteIdle ==
  /\ tables = [t \in Tables |-> {}]
  /\ tables0 = tables
  /\ storeDown = FALSE
  /\ del = [c \in DelIds |-> IdleDelete]

\* analytics holds all the rows, customEV none, performance the row of the
\* other project and one at the edge of the intervals; the store starts
\* under the transient condition.
DeleteInit ==
  /\ tables = [t \in Tables |->
                 CASE t = "analytics" -> AllRows
                   [] t = "customEV" -> {}
                   [] t = "performance" -> {Row(PID2, 2), Row(PID1, 3)}]
  /\ tables0 = tables
  /\ storeDown = TRUE
  /\ del = [c \in DelIds |-> IdleDelete]

\* ------------------------------------------------------------------------
\* Specifications

Init ==
  CacheInit /\ FormatIdle /\ ValidateIdle /\ DeleteIdle /\ PurgeIdle /\ GuardIdle

Next ==
  \/ \E c \in CallIds, pid \in Pids :
       GetStart(c, pid)
       /\ UNCHANGED <<fmtVars, valVars, delVars, purgeVars, grdVars>>
  \/ \E c \in CallIds :
       GetReply(c) /\ UNCHANGED <<fmtVars, valVars, delVars, purgeVars, grdVars>>
  \/ \E c \in CallIds :
       QueryReply(c)
       /\ UNCHANGED <<fmtVars, valVars, delVars, purgeVars, grdVars>>
  \/ \E c \in CallIds :
       SetReply(c) /\ UNCHANGED <<fmtVars, valVars, delVars, purgeVars, grdVars>>
  \/ \E pid \in Pids :
       deleteProjectRedis(pid)
       /\ UNCHANGED <<fmtVars, valVars, delVars, purgeVars, grdVars>>
  \/ \E pid \in Pids :
       StoreUpdate(pid)
       /\ UNCHANGED <<fmtVars, valVars, delVars, purgeVars, grdVars>>
  \/ Tick /\ UNCHANGED <<fmtVars, valVars, delVars, purgeVars, grdVars>>

Spec == Init /\ [][Next]_vars

InitFormat ==
  FormatInit /\ ValidateIdle /\ CacheIdle /\ DeleteIdle /\ PurgeIdle /\ GuardIdle

NextFormat ==
  \/ ToStorage /\ UNCHANGED <<valVars, cacheVars, delVars, purgeVars, grdVars>>
  \/ FromStorage /\ UNCHANGED <<valVars, cacheVars, delVars, purgeVars, grdVars>>

SpecFormat == InitFormat /\ [][NextFormat]_vars

InitValidate ==
  ValidateInit /\ FormatIdle /\ CacheIdle /\ DeleteIdle /\ PurgeIdle /\ GuardIdle

NextValidate == Validate /\ UNCHANGED <<fmtVars, cacheVars, delVars, purgeVars, grdVars>>

SpecValidate == InitValidate /\ [][NextValidate]_vars

InitDelete ==
  DeleteInit /\ FormatIdle /\ ValidateIdle /\ CacheLoaded /\ PurgeIdle
  /\ GuardIdle

NextDelete ==
  \/ \E c \in DelIds, pid \in {PID1}, r \in Ranges :
       DeleteStart(c, pid, r[1], r[2])
       /\ UNCHANGED <<fmtVars, valVars, cacheVars, purgeVars, grdVars>>
  \/ \E c \in DelIds, i \in DOMAIN QueryTables :
       CommandDone(c, i) /\ UNCHANGED <<fmtVars, valVars, cacheVars, purgeVars, grdVars>>
  \/ \E c \in DelIds, i \in DOMAIN QueryTables :
       CommandFail(c, i) /\ UNCHANGED <<fmtVars, valVars, cacheVars, purgeVars, grdVars>>
  \/ Recover /\ UNCHANGED <<fmtVars, valVars, cacheVars, purgeVars, grdVars>>

SpecDelete == InitDelete /\ [][NextDelete]_vars

InitPurge ==
  CacheInit /\ PurgeIdle /\ FormatIdle /\ ValidateIdle /\ DeleteIdle /\ GuardIdle

NextPurge ==
  \/ \E c \in CallIds, pid \in Pids :
       GetStart(c, pid)
       /\ UNCHANGED <<fmtVars, valVars, delVars, purgeVars, grdVars>>
  \/ \E c \in CallIds :
       GetReply(c) /\ UNCHANGED <<fmtVars, valVars, delVars, purgeVars, grdVars>>
  \/ \E c \in CallIds :
       QueryReply(c)
       /\ UNCHANGED <<fmtVars, valVars, delVars, purgeVars, grdVars>>
  \/ \E c \in CallIds :
       SetReply(c) /\ UNCHANGED <<fmtVars, valVars, delVars, purgeVars, grdVars>>
  \/ \E pid \in Pids :
       ObservedDelete(pid) /\ UNCHANGED <<fmtVars, valVars, delVars, grdVars>>
  \/ Tick /\ UNCHANGED <<fmtVars, valVars, delVars, purgeVars, grdVars>>

SpecPurge == InitPurge /\ [][NextPurge]_vars

InitGuard ==
  GuardInit /\ FormatIdle /\ ValidateIdle /\ CacheIdle /\ DeleteIdle /\ PurgeIdle

NextGuard ==
  \/ AllowedToView /\ UNCHANGED <<fmtVars, valVars, cacheVars, delVars, purgeVars>>
  \/ IsPIDUnique /\ UNCHANGED <<fmtVars, valVars, cacheVars, delVars, purgeVars>>
  \/ CheckIfIDUnique
     /\ UNCHANGED <<fmtVars, valVars, cacheVars, delVars, purgeVars>>

SpecGuard == InitGuard /\ [][NextGuard]_vars

\* ------------------------------------------------------------------------
\* Claims

KeyOfCall(c) == getRedisProjectKey(call[c].pid)

\* C1: a call that misses the cache and finds a row returns
\* formatFromClickhouse(row) and leaves an entry under the project's key; a
\* later call that reads that entry before it expires returns a project equal
\* to the first result and does not query the table.
C1_MissThenHit ==
  [][\A c \in CallIds :
       /\ ( /\ call[c].pc = "set"
            /\ call'[c].pc = "done"
            /\ call'[c].err = "none"
            /\ ~_isEmptyObject(call[c].row) )
          => /\ call'[c].project = formatFromClickhouse(call[c].row)
             /\ cache'[KeyOfCall(c)].has
             /\ cache'[KeyOfCall(c)].by = c
             /\ ~_isEmpty(redis_get(KeyOfCall(c))')
       /\ ( /\ call[c].pc = "get"
            /\ call'[c].pc = "done"
            /\ call'[c].err = "none"
            /\ cache[KeyOfCall(c)].by # 0
            /\ ~_isEmptyObject(call[cache[KeyOfCall(c)].by].row) )
          => /\ call'[c].project = call[cache[KeyOfCall(c)].by].project
             /\ ~call'[c].queried
             /\ call'[c].hit = cache[KeyOfCall(c)].by]_vars

\* C1's case: a call has returned the project of an entry that an earlier
\* call wrote from a row of the table.
C1_Witness ==
  \E c \in CallIds :
    /\ call[c].pc = "done"
    /\ call[c].err = "none"
    /\ call[c].hit # 0
    /\ ~_isEmptyObject(call[call[c].hit].row)
    /\ call[c].project = call[call[c].hit].project

\* The store answered the query of call c (the query did not fail).
StoreAnswered(c) == call[c].queried /\ call[c].err # "StoreError"

\* C2: a call that misses the cache and finds no project in the table fails
\* with the bad-request error and writes no cache entry.
C2_NoProjectIsBadRequest ==
  \A c \in CallIds :
    ( /\ call[c].pc = "done"
      /\ StoreAnswered(c)
      /\ _isEmptyObject(call[c].row)
      /\ call[c].err # "RedisError" )
    => call[c].err = "BadRequestException" /\ ~call[c].wrote

\* The cache holds, under the key of call c, a non-empty value that cannot be
\* deserialized.
HoldsCorrupt(c) ==
  /\ cache[KeyOfCall(c)].has
  /\ Len(cache[KeyOfCall(c)].val) > 0
  /\ ~JSON_parse(cache[KeyOfCall(c)].val).ok

\* C3: a call that reads a non-empty value that cannot be deserialized fails
\* with the internal error, does not query the table and leaves the cache as
\* it is; having failed, it does nothing more.
C3_CorruptIsFatal ==
  [][\A c \in CallIds :
       /\ ( /\ call[c].pc = "get"
            /\ call'[c].pc # "get"
            /\ call'[c].err # "RedisError"
            /\ HoldsCorrupt(c) )
          => /\ call'[c].pc = "done"
             /\ call'[c].err = "InternalServerErrorException"
             /\ ~call'[c].queried
             /\ ~call'[c].wrote
             /\ cache' = cache
             /\ store' = store
       /\ call[c].err = "InternalServerErrorException"
          => call'[c] = call[c]]_vars

\* C3's case: a call has failed with the internal error.
C3_Witness ==
  \E c \in CallIds :
    /\ call[c].pc = "done"
    /\ call[c].err = "InternalServerErrorException"
    /\ ~call[c].queried

\* C4: a call that starts more than one cache timeout after an update of its
\* project never returns the project as it was before that update.
C4_StalenessBound ==
  \A c \in CallIds :
    (call[c].pc = "done" /\ call[c].err = "none")
    => VersionOf(call[c].project) >= call[c].settled

\* C5: two calls for the same project that both missed the cache and both
\* queried the table are to write equal values.
C5_EquivalentWrites ==
  \A c, d \in CallIds :
    (call[c].pc = "set" /\ call[d].pc = "set" /\ call[c].pid = call[d].pid)
    => CacheValue(call[c].project) = CacheValue(call[d].project)

\* Row r is one that call c is to delete: its pid is the call's and its
\* timestamp lies in the call's interval, ends included.
InRange(r, c) ==
  r.pid = del[c].pid /\ r.created >= del[c].from /\ r.created <= del[c].to

Started(c) == del[c].outcome # "idle"

\* Every command of call c has succeeded or failed.
Completed(c) ==
  Started(c) /\ \A i \in DOMAIN del[c].status : del[c].status[i] # "sent"

CommandsOn(c, t) == {i \in DOMAIN del[c].status : QueryTables[i] = t}

\* C6: a call sends exactly one delete command to each of the three tables;
\* it succeeds if and only if all three commands succeed; if any command
\* fails the caller observes a failure, and what the other commands deleted
\* stays deleted.
C6_AllOrFailure ==
  \A c \in DelIds :
    Started(c)
    => /\ \A t \in Tables : Cardinality(CommandsOn(c, t)) = 1
       /\ del[c].outcome = "resolved"
          <=> \A i \in DOMAIN del[c].status : del[c].status[i] = "ok"
       /\ del[c].outcome = "rejected"
          <=> \E i \in DOMAIN del[c].status : del[c].status[i] = "failed"
       /\ \A i \in DOMAIN del[c].status :
            del[c].status[i] = "ok"
            => ~\E r \in tables[QueryTables[i]] : InRange(r, c)

\* C6's case: a call has failed after one of its commands deleted rows, and
\* the rows are gone.
C6_Witness ==
  \E c \in DelIds, i \in DOMAIN QueryTables :
    /\ del[c].outcome = "rejected"
    /\ del[c].status[i] = "ok"
    /\ \E r \in tables0[QueryTables[i]] :
         InRange(r, c) /\ r \notin tables[QueryTables[i]]

SameArguments(c, d) ==
  /\ del[c].pid = del[d].pid
  /\ del[c].from = del[d].from
  /\ del[c].to = del[d].to

\* Call d repeats call c, which failed after some of its commands succeeded,
\* and was made when the store no longer failed.
Retries(c, d) ==
  /\ c < d
  /\ Started(d)
  /\ SameArguments(c, d)
  /\ del[c].outcome = "rejected"
  /\ \E i \in DOMAIN del[c].status : del[c].status[i] = "ok"
  /\ del[d].sound

\* After a completed retry no table holds a row of the call's range, no table
\* has gained a row, and every row outside the range of every call made is
\* still there; a call made when the store does not fail succeeds.
RetryDone ==
  /\ \A c, d \in DelIds :
       (Retries(c, d) /\ Completed(d))
       => /\ del[d].outcome = "resolved"
          /\ \A t \in Tables :
               /\ ~\E r \in tables[t] : InRange(r, d)
               /\ tables[t] \subseteq tables0[t]
               /\ \A r \in tables0[t] :
                    (~\E e \in DelIds : Started(e) /\ InRange(r, e))
                    => r \in tables[t]
  /\ \A d \in DelIds :
       (del[d].sound /\ Completed(d)) => del[d].outcome = "resolved"

\* A command of a call made when the store does not fail, on a table that
\* holds no row of the call's range, succeeds and changes no table.
NoOpStep ==
  \A d \in DelIds, i \in DOMAIN QueryTables :
    ( /\ Started(d)
      /\ del[d].sound
      /\ del[d].status[i] = "sent"
      /\ del'[d].status[i] # "sent"
      /\ ~\E r \in tables[QueryTables[i]] : InRange(r, d) )
    => del'[d].status[i] = "ok" /\ tables' = tables

\* C7: after a call in which some commands succeeded and one failed, the same
\* call made again once the store no longer fails succeeds; afterwards no
\* table holds a row of that pid and interval and every other row is as it
\* was; a call on a range that is empty or already deleted succeeds and
\* changes no table.
C7_RetryIdempotent == [][RetryDone' /\ NoOpStep]_vars

\* C7's case: a retry of a partly failed call has completed, and the first
\* call had left rows of the range in a table.
C7_Witness ==
  \E c, d \in DelIds :
    /\ Retries(c, d)
    /\ Completed(d)
    /\ del[d].outcome = "resolved"
    /\ \E t \in Tables : \E r \in tables0[t] : InRange(r, d)
    /\ \E i \in DOMAIN del[c].status : del[c].status[i] = "failed"

\* C8: the round trip law: for every valid project p (booleans active and
\* public, lists origins and ipBlacklist, the empty list included),
\* formatFromClickhouse(formatToClickhouse(p)) equals p.
C8_RoundTrip == fmtPc = "loaded" => fmtBack = fmtProject

\* The checks of validateProject that a projectDTO violates, as the claim
\* numbers them.
BadOrigins(dto) ==
  {i \in 1..Len(Entries(dto.origins)) :
     ~ORIGINS_REGEX_test(_trim(Entries(dto.origins)[i]))}

BadIps(dto) ==
  {i \in 1..Len(Entries(dto.ipBlacklist)) :
     /\ ~net_isIP(_trim(Entries(dto.ipBlacklist)[i]))
     /\ ~IP_REGEX_test(_trim(Entries(dto.ipBlacklist)[i]))}

Violated(dto) ==
  {n \in 1..6 :
     \/ n = 1 /\ Len(dto.name.s) > NAME_LIMIT
     \/ n = 2 /\ ~isValidPID(dto.id)
     \/ n = 3 /\ Len(_join(dto.origins)) > ORIGINS_LIMIT
     \/ n = 4 /\ Len(_join(dto.ipBlacklist)) > IP_BLACKLIST_LIMIT
     \/ n = 5 /\ BadOrigins(dto) # {}
     \/ n = 6 /\ BadIps(dto) # {}}

Least(S) == CHOOSE n \in S : \A m \in S : n <= m

CheckNames == <<"name", "pid", "originsLength", "ipBlacklistLength">>

\* What the claim has validateProject(dto, FALSE) do: throw for the earliest
\* violated check, naming the first offending entry, after evaluating the
\* checks up to that one and none after it.
FirstViolation(dto) ==
  IF Violated(dto) = {}
  THEN Outcome("none", "none", <<>>,
               CheckNames \o Copies("origin", Len(Entries(dto.origins)))
                          \o Copies("ip", Len(Entries(dto.ipBlacklist))))
  ELSE LET n == Least(Violated(dto))
       IN CASE n <= 4 ->
                 Outcome("UnprocessableEntityException", CheckNames[n], <<>>,
                         SubSeq(CheckNames, 1, n))
            [] n = 5 ->
                 Outcome("ConflictException", "origin",
                         Entries(dto.origins)[Least(BadOrigins(dto))],
                         CheckNames \o Copies("origin", Least(BadOrigins(dto))))
            [] n = 6 ->
                 Outcome("ConflictException", "ip",
                         Entries(dto.ipBlacklist)[Least(BadIps(dto))],
                         CheckNames
                           \o Copies("origin", Len(Entries(dto.origins)))
                           \o Copies("ip", Least(BadIps(dto))))

\* C9: validateProject with creating = false throws the error of the earliest
\* violated check, in the order name length, identifier, origins length,
\* ipBlacklist length, first bad origin, first bad address; it evaluates no
\* check after that one, and returns when no check is violated.
C9_FirstViolationInOrder ==
  (valPc = "done" /\ ~valCreating) => valOutcome = FirstViolation(valDTO)

\* C9's case: a projectDTO that violates several checks was rejected.
C9_Witness ==
  /\ valPc = "done"
  /\ ~valCreating
  /\ Cardinality(Violated(valDTO)) >= 3
  /\ valOutcome.error # "none"

\* C10: validateProject with creating = true applies the name length check
\* alone: it returns for a name of at most 50 characters whatever id, origins
\* and ipBlacklist are, and throws the size error for a longer name.
C10_CreatingChecksNameOnly ==
  (valPc = "done" /\ valCreating)
  => /\ valOutcome.evaluated = <<"name">>
     /\ IF Len(valDTO.name.s) <= NAME_LIMIT
        THEN valOutcome.error = "none"
        ELSE /\ valOutcome.error = "UnprocessableEntityException"
             /\ valOutcome.check = "name"

\* C10's case: a call with creating = true returned for a projectDTO with a
\* malformed id, an over-long list and invalid entries.
C10_Witness ==
  /\ valPc = "done"
  /\ valCreating
  /\ {2, 3, 5, 6} \subseteq Violated(valDTO)
  /\ valOutcome.error = "none"

Holds(projects, pid) ==
  \E i \in 1..Len(projects) :
    projects[i].id.k = "str" /\ pid.k = "str" /\ projects[i].id.s = pid.s

\* C12: isPIDUnique(projects, pid) returns false if and only if some element
\* of projects has an id equal to pid; it returns true for the empty list
\* and for a list that does not hold pid.
C12_UniqueIffAbsent ==
  uniResult # "idle"
  => /\ uniResult = "false" <=> Holds(uniProjects, uniPid)
     /\ uniProjects = <<>> => uniResult = "true"

\* C12's case: the pid was found behind an element that does not have it.
C12_Witness ==
  /\ uniResult = "false"
  /\ Len(uniProjects) = 2
  /\ uniProjects[1].id # uniPid
  /\ uniProjects[2].id = uniPid

\* C13: checkIfIDUnique(projects, pid) throws a conflict error exactly when
\* isPIDUnique(projects, pid) is false and returns otherwise.
C13_DuplicateIsConflict ==
  uniCheck # "idle"
  => /\ uniCheck = "ConflictException" <=> Holds(uniProjects, uniPid)
     /\ uniCheck = "none" <=> ~Holds(uniProjects, uniPid)

\* The projectDTO violates no check but, perhaps, check n.
ValidBut(dto, n) == Violated(dto) \subseteq {n}

\* C14: with creating = false and the other fields valid, a name of 50
\* characters passes and one of 51 fails with the size error; origins that
\* join to 300 characters pass the length check and origins that join to
\* 301 fail with the size error; the same holds for ipBlacklist.
C14_Boundaries ==
  (valPc = "done" /\ ~valCreating)
  => /\ (Len(valDTO.name.s) = 50 /\ ValidBut(valDTO, 1))
        => valOutcome.error = "none"
     /\ (Len(valDTO.name.s) = 51 /\ ValidBut(valDTO, 1))
        => /\ valOutcome.error = "UnprocessableEntityException"
           /\ valOutcome.check = "name"
     /\ (Len(_join(valDTO.origins)) = 300 /\ ValidBut(valDTO, 3))
        => valOutcome.error = "none"
     /\ (Len(_join(valDTO.origins)) = 301 /\ ValidBut(valDTO, 3))
        => /\ valOutcome.error = "UnprocessableEntityException"
           /\ valOutcome.check = "originsLength"
     /\ (Len(_join(valDTO.ipBlacklist)) = 300 /\ ValidBut(valDTO, 4))
        => valOutcome.error = "none"
     /\ (Len(_join(valDTO.ipBlacklist)) = 301 /\ ValidBut(valDTO, 4))
        => /\ valOutcome.error = "UnprocessableEntityException"
           /\ valOutcome.check = "ipBlacklistLength"

\* C14's case: a projectDTO with all three at their limits was accepted.
C14_Witness ==
  /\ valPc = "done"
  /\ ~valCreating
  /\ Len(valDTO.name.s) = 50
  /\ Len(_join(valDTO.origins)) = 300
  /\ Len(_join(valDTO.ipBlacklist)) = 300
  /\ valOutcome.error = "none"

\* The entry under key k was written by a call of getRedisProject.
WrittenByCall(k) == cache[k].has /\ cache[k].by # 0

\* C15 as stated: every entry getRedisProject writes lies under the key made
\* of the prefix and the pid, and its value is the JSON text of the storage
\* form of the project (flags 0/1, lists joined by commas).
C15_StorageShapedValue ==
  \A k \in CacheKeys :
    WrittenByCall(k)
    => /\ k = getRedisProjectKey(call[cache[k].by].pid)
       /\ cache[k].val =
            JSON_stringify(formatToClickhouse(call[cache[k].by].project))

\* C15, amended: every entry getRedisProject writes lies under the key made
\* of the prefix and the pid, and its value is the JSON text of the project
\* in memory form, formatFromClickhouse(row): flags true/false, lists as
\* arrays.
C15_CacheProtocol ==
  \A k \in CacheKeys :
    WrittenByCall(k)
    => /\ k = getRedisProjectKey(call[cache[k].by].pid)
       /\ cache[k].val =
            JSON_stringify(formatFromClickhouse(call[cache[k].by].row))
       /\ cache[k].val # JSON_stringify(call[cache[k].by].row)

\* C15's case: the cache holds an entry written from a row of the table.
C15_Witness ==
  \E k \in CacheKeys :
    /\ WrittenByCall(k)
    /\ ~_isEmptyObject(call[cache[k].by].row)
    /\ call[cache[k].by].row.origins.k = "str"

\* Call c writes the cache in this step.
Writes(c) == call[c].pc = "set" /\ call'[c].wrote

\* C16: a cache write of getRedisProject is one step that sets the value and
\* the expiry together; a call writes at most once; every entry a call
\* wrote is a complete serialized project with an expiry of at most
\* redisProjectCacheTimeout, whatever operation of whatever call failed: it
\* is written whole and its value is never touched again.
C16_AtomicWrite ==
  [][/\ \A c \in CallIds :
          /\ Writes(c)
             => /\ cache'[KeyOfCall(c)].has
                /\ cache'[KeyOfCall(c)].by = c
                /\ cache'[KeyOfCall(c)].ttl = redisProjectCacheTimeout
                /\ \E parsed \in {JSON_parse(cache'[KeyOfCall(c)].val)} :
                     parsed.ok /\ parsed.v = call'[c].project
          /\ call[c].wrote => (call[c].pc = "done" /\ call'[c].pc = "done")
          /\ (call[c].pc # "set" /\ call'[c].pc # call[c].pc) => cache' = cache
     /\ \A k \in CacheKeys :
          (cache'[k].has /\ cache'[k].by # 0)
          => /\ cache'[k].ttl \in 1..redisProjectCacheTimeout
             /\ \/ Writes(cache'[k].by)
                \/ /\ cache[k].has
                   /\ cache[k].by = cache'[k].by
                   /\ cache[k].val = cache'[k].val]_vars

\* C16's case: an entry a call wrote is in the cache, with part of its time
\* gone, after another call failed at its write.
C16_Witness ==
  \E k \in CacheKeys, d \in CallIds :
    /\ WrittenByCall(k)
    /\ cache[k].ttl < redisProjectCacheTimeout
    /\ call[d].fault = "redis.set"

\* C17: deleteProjectRedis never throws: when redis.del fails the failure is
\* logged and the call returns, leaving the cache as it is; when it succeeds
\* no entry is left under the key of id; the entries under the other keys
\* stay.  In getRedisProject the failure of redis.get, of the query or of
\* redis.set is thrown to the caller.
C17_DeleteNeverRaises ==
  [][/\ purge' # purge
        => /\ purge'.outcome = "returned"
           /\ purge'.logged => cache' = cache
           /\ ~purge'.logged => ~cache'[getRedisProjectKey(purge'.id)].has
           /\ \A k \in CacheKeys \ {getRedisProjectKey(purge'.id)} :
                cache'[k] = cache[k]
           /\ call' = call
           /\ store' = store
     /\ \A c \in CallIds :
          call'[c].fault # "none"
          => /\ call'[c].pc = "done"
             /\ call'[c].err \in {"RedisError", "StoreError"}
             /\ _isEmptyObject(call'[c].project)]_vars

\* C17's case: a failed delete was logged and left the entry of a call where
\* it was, and a call of getRedisProject threw the failure of an operation.
C17_Witness ==
  /\ purge.outcome = "returned"
  /\ purge.logged
  /\ WrittenByCall(getRedisProjectKey(purge.id))
  /\ \E c \in CallIds : call[c].fault # "none"

\* Call c returns the project of the entry it read in this step.
Hits(c) ==
  /\ call[c].pc = "get"
  /\ call'[c].pc = "done"
  /\ call'[c].err = "none"

\* C20: a call that hits the cache writes nothing: the entry keeps its value
\* and the time it has left, the table is neither read nor written and the
\* other entries stay; the time an entry has left grows only when a call
\* writes it, however often it is read.
C20_HitWritesNothing ==
  [][/\ \A c \in CallIds :
          Hits(c)
          => /\ cache' = cache
             /\ store' = store
             /\ ~call'[c].queried
             /\ ~call'[c].wrote
     /\ \A k \in CacheKeys :
          (cache[k].has /\ cache'[k].has /\ cache'[k].ttl > cache[k].ttl)
          => \E c \in CallIds : Writes(c) /\ KeyOfCall(c) = k]_vars

\* C20's case: a call has read an entry with part of its time gone, and the
\* entry is still there with that time.
C20_Witness ==
  \E c \in CallIds :
    /\ call[c].pc = "done"
    /\ call[c].err = "none"
    /\ call[c].hit # 0
    /\ cache[KeyOfCall(c)].has
    /\ cache[KeyOfCall(c)].by = call[c].hit
    /\ cache[KeyOfCall(c)].ttl < redisProjectCacheTimeout

\* The i-th command of call c is carried out in this step.
Carried(c, i) == del[c].status[i] = "sent" /\ del'[c].status[i] = "ok"

\* C18: removeDataFromClickhouse removes from each table only rows whose pid
\* is the call's and whose timestamp lies in [from, to], ends included; the
\* rows of other projects and the rows outside the interval stay in all
\* three tables, and the project table and the cache are unchanged.
C18_DeleteFrame ==
  [][/\ \A t \in Tables :
          /\ tables'[t] \subseteq tables[t]
          /\ \A r \in tables[t] \ tables'[t] :
               \E c \in DelIds, i \in DOMAIN QueryTables :
                 /\ Started(c)
                 /\ Carried(c, i)
                 /\ QueryTables[i] = t
                 /\ r.pid = del[c].pid
                 /\ del[c].from <= r.created
                 /\ r.created <= del[c].to
     /\ store' = store
     /\ cache' = cache]_vars

\* C18's case: a call for the second 2 alone has succeeded; the rows of the
\* seconds 1 and 3 and the row of the other project are where they were,
\* and so are the row of the project table and the cache entry.
C18_Witness ==
  \E c \in DelIds :
    /\ del[c].outcome = "resolved"
    /\ del[c].from = 2
    /\ del[c].to = 2
    /\ tables["analytics"] = AllRows \ {Row(PID1, 2)}
    /\ tables["performance"] = tables0["performance"]
    /\ ~_isEmptyObject(store[PID1])
    /\ cache[getRedisProjectKey(PID1)].has

\* C19: removeDataFromClickhouse sends the three commands before it awaits
\* any; it succeeds only when all three have succeeded; it fails as soon as
\* one command fails, without waiting for the others, and a command still
\* under way then takes effect all the same.
C19_FailFast ==
  [][\A c \in DelIds :
       /\ (~Started(c) /\ Started(c)')
          => /\ Len(del'[c].status) = 3
             /\ \A i \in DOMAIN del'[c].status : del'[c].status[i] = "sent"
             /\ del'[c].outcome = "pending"
       /\ del'[c].outcome = "resolved"
          => \A i \in DOMAIN del'[c].status : del'[c].status[i] = "ok"
       /\ (\E i \in DOMAIN del'[c].status : del'[c].status[i] = "failed")
          => del'[c].outcome = "rejected"
       /\ \A i \in DOMAIN del[c].status :
            (del[c].outcome = "rejected" /\ Carried(c, i))
            => /\ del'[c].outcome = "rejected"
               /\ tables'[QueryTables[i]] =
                    {r \in tables[QueryTables[i]] : ~InRange(r, c)}]_vars

\* C19's case: the caller has seen the failure while a command is under way
\* whose rows are still in the table, and which can yet be carried out.
C19_Witness ==
  \E c \in DelIds, i \in DOMAIN QueryTables :
    /\ del[c].outcome = "rejected"
    /\ del[c].status[i] = "sent"
    /\ \E r \in tables[QueryTables[i]] : InRange(r, c)
    /\ ENABLED CommandDone(c, i)

====
